---- MODULE Spec2Model ----
(***************************************************************************)
(* Lead-capture Telegram bot (src/bot.py): the users table, the callback   *)
(* driven questionnaire, the contact handler, the text replies, the admin   *)
(* commands and the broadcast loop.                                        *)
(*                                                                         *)
(* Strings are tuples of one-character strings, so that str.lower,         *)
(* str.replace, str.startswith, str.split and the f-string concatenations  *)
(* are computed character by character.  The Cyrillic district names of    *)
(* the source are written in Latin transliteration (upper-case initials    *)
(* kept); the Russian message texts are named by a tag ("goal", "join").   *)
(* Chats are private: a message answered to a user's message or button     *)
(* press goes to that user.                                                *)
(***************************************************************************)
EXTENDS Integers, Sequences, FiniteSets, TLC

\* ---------------------------------------------------------------- bounds
\* Users who talk to the bot in Spec (ids 1..MaxUsers).
MaxUsers == 1
\* Ids known to the store in SpecStore, SpecBroadcast and SpecTasks
\* (1..MaxAudience).
MaxAudience == 2
\* A user presses only the first MaxPick buttons of a keyboard.
MaxPick == 2
\* Broadcasts the scheduler starts in SpecBroadcast.
MaxBroadcasts == 1
\* ------------------------------------------------------------ configuration
ADMIN_ID == 2

Ids == 1..MaxUsers
Audience == 1..MaxAudience
Chats == Ids \cup Audience
\* The user of SpecFault, and with the admin the senders of SpecChat.
Customer == 1
Senders == {Customer, ADMIN_ID}

DISTRICTS ==
  << <<  <<"k","r","a","s","n","o","d","a","r">>,
         << <<"T","s","e","n","t","r","a","l","n","y">>,
            <<"P","r","i","k","u","b","a","n","s","k","y">>,
            <<"F","e","s","t","i","v","a","l","n","y">>,
            <<"S","e","v","e","r","n","y">>,
            <<"Z","a","p","a","d","n","y">>,
            <<"Y","u","b","i","l","e","y","n","y">> >> >>,
     <<  <<"m","o","s","c","o","w">>,
         << <<"T","s","e","n","t","r","a","l","n","y">>,
            <<"S","e","v","e","r","n","y">>,
            <<"V","o","s","t","o","c","h","n","y">>,
            <<"Z","a","p","a","d","n","y">>,
            <<"Y","u","g","o","-","Z","a","p","a","d","n","y">>,
            <<"Y","u","g","o","-","V","o","s","t","o","c","h","n","y">> >> >>,
     <<  <<"s","p","b">>,
         << <<"A","d","m","i","r","a","l","t","e","y","s","k","y">>,
            <<"V","a","s","i","l","e","o","s","t","r","o","v","s","k","y">>,
            <<"M","o","s","k","o","v","s","k","y">>,
            <<"N","e","v","s","k","y">>,
            <<"P","r","i","m","o","r","s","k","y">>,
            <<"K","a","l","i","n","i","n","s","k","y">> >> >> >>

\* DISTRICTS.get(city, [])
DISTRICTS_get(city) ==
  IF \E i \in 1..Len(DISTRICTS) : DISTRICTS[i][1] = city
    THEN DISTRICTS[CHOOSE i \in 1..Len(DISTRICTS) : DISTRICTS[i][1] = city][2]
    ELSE <<>>

\* ------------------------------------------------------------------ strings
Upper == <<"A","B","C","D","E","F","G","H","I","J","K","L","M",
           "N","O","P","Q","R","S","T","U","V","W","X","Y","Z">>
Lower == <<"a","b","c","d","e","f","g","h","i","j","k","l","m",
           "n","o","p","q","r","s","t","u","v","w","x","y","z">>

Range(s) == {s[i] : i \in 1..Len(s)}

\* str.lower()
lower(s) ==
  [i \in 1..Len(s) |->
     IF \E k \in 1..Len(Upper) : Upper[k] = s[i]
       THEN Lower[CHOOSE k \in 1..Len(Upper) : Upper[k] = s[i]]
       ELSE s[i]]

\* str.replace(a, b) for one-character a and b
replace(s, a, b) == [i \in 1..Len(s) |-> IF s[i] = a THEN b ELSE s[i]]

\* str.startswith(p)
startswith(s, p) == Len(s) >= Len(p) /\ SubSeq(s, 1, Len(p)) = p

\* s.split("_", 1)[1]: what follows the first underscore
split_1(s) ==
  LET i == CHOOSE k \in 1..Len(s) : s[k] = "_" /\ \A j \in 1..(k - 1) : s[j] # "_"
  IN  SubSeq(s, i + 1, Len(s))

\* d.replace(" ","_").lower()
district_key(d) == lower(replace(d, " ", "_"))

\* str(value) inside an f-string: None prints as "None"
NULL == <<"NULL">>
str(v) == IF v = NULL THEN <<"N","o","n","e">> ELSE v

\* -------------------------------------------------------------------- table
\* CREATE TABLE users: the columns in declaration order
Columns == <<"user_id", "name", "goal", "property", "city", "district",
             "mortgage", "handover", "finishing", "phone", "created_at">>

ColumnNames == Range(Columns)

\* The row INSERT OR IGNORE INTO users(user_id, created_at) adds
new_row(uid, t) ==
  [c \in ColumnNames |->
     IF c = "user_id" THEN uid ELSE IF c = "created_at" THEN t ELSE NULL]

\* upsert_user with UPDATE users SET ... and no WHERE clause
upsert_user_all_rows(tbl, uid, fields, t) ==
  LET inserted == IF \E r \in tbl : r["user_id"] = uid
                    THEN tbl
                    ELSE tbl \cup {new_row(uid, t)}
  IN  IF DOMAIN fields # {}
        THEN {[c \in ColumnNames |->
                 IF c \in DOMAIN fields THEN fields[c] ELSE r[c]] : r \in inserted}
        ELSE inserted

\* upsert_user with INSERT OR REPLACE
upsert_user_replace(tbl, uid, fields, t) ==
  LET inserted == {r \in tbl : r["user_id"] # uid} \cup {new_row(uid, t)}
  IN  IF DOMAIN fields # {}
        THEN {IF r["user_id"] = uid
                THEN [c \in ColumnNames |->
                        IF c \in DOMAIN fields THEN fields[c] ELSE r[c]]
                ELSE r : r \in inserted}
        ELSE inserted

\* upsert_user with a plain INSERT into a table without the primary key
upsert_user_no_key(tbl, uid, fields, t) ==
  LET inserted == tbl \cup {new_row(uid, t)}
  IN  IF DOMAIN fields # {}
        THEN {IF r["user_id"] = uid
                THEN [c \in ColumnNames |->
                        IF c \in DOMAIN fields THEN fields[c] ELSE r[c]]
                ELSE r : r \in inserted}
        ELSE inserted

\* upsert_user: INSERT OR IGNORE, then UPDATE ... WHERE user_id=? when fields
\* were given, then commit.  The result is the committed table.
upsert_user(tbl, uid, fields, t) ==
  LET inserted == IF \E r \in tbl : r["user_id"] = uid
                    THEN tbl
                    ELSE tbl \cup {new_row(uid, t)}
  IN  IF DOMAIN fields # {}
        THEN {IF r["user_id"] = uid
                THEN [c \in ColumnNames |->
                        IF c \in DOMAIN fields THEN fields[c] ELSE r[c]]
                ELSE r : r \in inserted}
        ELSE inserted

\* SELECT * FROM users WHERE user_id=? ; fetchone()
fetchone(tbl, uid) == CHOOSE r \in tbl : r["user_id"] = uid

\* row[i - 1]: the positions counted from 1
row_at_from_one(row, i) == row[Columns[i]]

\* row[i] of a fetched row (0-based position in the column order)
row_at(row, i) == row[Columns[i + 1]]

\* SELECT COUNT(*) FROM users
get_user_count(tbl) == Cardinality(tbl)

\* SELECT user_id FROM users: the ids in rowid (= user_id) order
RECURSIVE sorted_ids(_)
sorted_ids(S) ==
  IF S = {} THEN <<>>
  ELSE LET m == CHOOSE x \in S : \A y \in S : x <= y
       IN  <<m>> \o sorted_ids(S \ {m})

iterate_users(tbl) == sorted_ids({r["user_id"] : r \in tbl})

\* ------------------------------------------------------------ callback data
P_goal == <<"g","o","a","l","_">>
P_type == <<"t","y","p","e","_">>
P_city == <<"c","i","t","y","_">>
P_district == <<"d","i","s","t","r","i","c","t","_">>
P_family == <<"f","a","m","i","l","y","_">>
P_install == <<"i","n","s","t","a","l","l","_">>
P_hd == <<"h","d","_">>
P_finish == <<"f","i","n","i","s","h","_">>

S_yes == <<"y","e","s">>
S_no == <<"n","o">>
S_family == <<"f","a","m","i","l","y">>
S_no_family == <<"n","o","_","f","a","m","i","l","y">>

\* The option codes of each keyboard, in button order
GoalCodes == << <<"l","i","v","e">>, <<"i","n","v","e","s","t">> >>
TypeCodes == << <<"1">>, <<"2">>, <<"3">>, <<"h","o","u","s","e">>,
                <<"s","t","u","d","i","o">> >>
InstallCodes == << <<"c","o","a","s","t">>,
                   <<"k","r","a","s","n","o","d","a","r">> >>
HandoverCodes == << <<"n","o","w">>, <<"w","a","i","t">> >>
FinishCodes == << <<"r","e","a","d","y">>, <<"g","r","e","y">> >>

\* kb.button(callback_data=f"<prefix><code>") for each code
buttons(prefix, codes) == [i \in 1..Len(codes) |-> prefix \o codes[i]]

\* the membership check left out
is_member_always(status) == TRUE

\* member.status not in ("member","creator","administrator")
MemberStatuses == {"member", "creator", "administrator"}
is_member(status) == status \in MemberStatuses

\* the two financing values exchanged
family_value_swapped(choice) == IF choice = S_yes THEN S_no_family ELSE S_family

\* val = "family" if choice=="yes" else "no_family"
family_value(choice) == IF choice = S_yes THEN S_family ELSE S_no_family

\* the location stored without its prefix
install_value_bare(loc) == loc

\* f"install_{loc}"
install_value(loc) == P_install \o loc

\* ----------------------------------------------------------------- messages
\* A message the bot sends: the chat, the text (by tag), the callback data of
\* its inline buttons, and for the lead notification its lines.
Msg(to, kind, kb, body) == [to |-> to, kind |-> kind, kb |-> kb, body |-> body]

\* handle_city's keyboard for each city of DISTRICTS, in table order
DistrictKeyboards ==
  [i \in 1..Len(DISTRICTS) |->
     [j \in 1..Len(DISTRICTS[i][2]) |->
        P_district \o district_key(DISTRICTS[i][2][j])]]

join_prompt(u) == Msg(u, "join", <<>>, <<>>)
ask_goal(u) == Msg(u, "goal", buttons(P_goal, GoalCodes), <<>>)
\* the city prompt sent in place of the type prompt
ask_type_skipped(u) ==
  Msg(u, "city", buttons(P_city, [i \in 1..Len(DISTRICTS) |-> DISTRICTS[i][1]]), <<>>)

ask_type(u) == Msg(u, "type", buttons(P_type, TypeCodes), <<>>)
ask_city(u) ==
  Msg(u, "city", buttons(P_city, [i \in 1..Len(DISTRICTS) |-> DISTRICTS[i][1]]), <<>>)
ask_district(u, city) ==
  Msg(u, "district",
      IF \E i \in 1..Len(DISTRICTS) : DISTRICTS[i][1] = city
        THEN DistrictKeyboards[CHOOSE i \in 1..Len(DISTRICTS) : DISTRICTS[i][1] = city]
        ELSE <<>>,
      <<>>)
ask_mortgage(u) == Msg(u, "mortgage", buttons(P_family, <<S_yes, S_no>>), <<>>)
ask_install(u) == Msg(u, "install", buttons(P_install, InstallCodes), <<>>)
ask_handover(u) == Msg(u, "handover", buttons(P_hd, HandoverCodes), <<>>)
ask_finish(u) == Msg(u, "finish", buttons(P_finish, FinishCodes), <<>>)
ask_phone(u) == Msg(u, "phone", <<>>, <<>>)
document(u) == Msg(u, "document", <<>>, <<>>)
thanks(u) == Msg(u, "thanks", <<>>, <<>>)
\* the replies of cmd_stats and cmd_broadcast
stats_reply(u, count) == Msg(u, "stats", <<>>, <<count>>)
broadcast_usage(u) == Msg(u, "usage", <<>>, <<>>)
broadcast_done(u) == Msg(u, "broadcast_done", <<>>, <<>>)

\* parts of handle_contact: the labelled values of row[2..9].  The text sent
\* to ADMIN_ID is the header line followed by "\n".join(parts).
PartLabels == <<"goal", "type", "city", "district", "mortgage", "handover",
                "finishing", "phone">>
lead_notification(row) ==
  Msg(ADMIN_ID, "lead", <<>>,
      [i \in 1..Len(PartLabels) |-> <<PartLabels[i], str(row_at(row, i + 1))>>])

\* -------------------------------------------------------------------- state
VARIABLES
  users,    \* the users table: a set of rows
  now,      \* datetime.utcnow(), as the number of timestamps stored so far
  shown,    \* per user, the callback data of the buttons in the chat so far
  last,     \* per user, the latest message a handler answered in the chat
  out,      \* the messages the latest step sent
  ev,       \* the latest step: handler, user, payload
  path,     \* per user, the answers of the current pass while given in order
  ensured,  \* ids upsert_user was ever called with
  bc,       \* the broadcast loop
  conns     \* per task, the connection of its upsert_user call in progress

vars == <<users, now, shown, last, out, ev, path, ensured, bc, conns>>

NoMsg == Msg(0, "none", <<>>, <<>>)
Off == [on |-> FALSE, done |-> FALSE, ans |-> <<>>]
Idle == [pc |-> "idle", text |-> "none", ids |-> <<>>, i |-> 0, audience |-> {},
         attempts |-> <<>>, delivered |-> {}, failed |-> {}, started |-> 0,
         caller |-> 0]
\* The tasks whose upsert_user calls run statement by statement in SpecTasks.
Tasks == {"A", "B"}
NoCall == [pc |-> "idle", uid |-> 0, fields |-> <<>>, work |-> {}, t |-> 0,
           seen |-> {}, after |-> {}]

\* message.from_user.full_name, msg.contact.phone_number, member.status
Names == {<<"A","n","n","a">>}
Phones == {<<"+","7","9","9","9","0","0","0","0","0","0","0">>}
Statuses == {"member", "creator", "administrator", "left", "kicked"}

Init ==
  /\ users = {}
  /\ now = 0
  /\ shown = [u \in Chats |-> {}]
  /\ last = [u \in Chats |-> NoMsg]
  /\ out = <<>>
  /\ ev = [h |-> "init", uid |-> 0, data |-> <<>>]
  /\ path = [u \in Chats |-> Off]
  /\ ensured = {}
  /\ bc = Idle
  /\ conns = [p \in Tasks |-> NoCall]

\* a send that raises is skipped and the handler goes on
sent_skips(msgs, nfail) ==
  IF nfail = 0 \/ nfail > Len(msgs)
    THEN msgs
    ELSE SubSeq(msgs, 1, nfail - 1) \o SubSeq(msgs, nfail + 1, Len(msgs))

\* The messages of msgs that are sent: send number nfail raises (0: none does)
\* and ends the handler.
sent(msgs, nfail) ==
  IF nfail = 0 \/ nfail > Len(msgs) THEN msgs ELSE SubSeq(msgs, 1, nfail - 1)

\* The effect of the sends on user u's chat.
Emit(u, msgs) ==
  LET mine == SelectSeq(msgs, LAMBDA m : m.to = u /\ m.kind # "lead")
  IN  /\ out' = msgs
      /\ shown' = [shown EXCEPT ![u] = @ \cup UNION {Range(mine[i].kb) : i \in 1..Len(mine)}]
      /\ last' = [last EXCEPT ![u] = IF mine = <<>> THEN @ ELSE mine[Len(mine)]]

\* await upsert_user(uid, **fields).  The clock is read at every call; its
\* reading is stored only by the INSERT that adds a row, and is later than
\* every timestamp stored before.
Commit(u, fields) ==
  /\ users' = upsert_user(users, u, fields, now)
  /\ now' = IF \E r \in users : r["user_id"] = u THEN now ELSE now + 1
  /\ ensured' = ensured \cup {u}

\* An answer given in order is a press on a button of the latest prompt.
InOrder(u, data) ==
  IF path[u].on /\ ~path[u].done /\ data \in Range(last[u].kb)
    THEN [path[u] EXCEPT !.ans = Append(@, data)]
    ELSE Off

Step(h, u, data) ==
  /\ ev' = [h |-> h, uid |-> u, data |-> data]
  /\ UNCHANGED <<bc, conns>>

\* ----------------------------------------------------------------- handlers
cmd_start(u, full_name, status, nfail) ==
  /\ Commit(u, [name |-> full_name])
  /\ IF ~is_member(status)
       THEN /\ Emit(u, sent(<<join_prompt(u)>>, nfail))
            /\ path' = [path EXCEPT ![u] = Off]
       ELSE /\ Emit(u, sent(<<ask_goal(u)>>, nfail))
            /\ path' = [path EXCEPT ![u] = [on |-> TRUE, done |-> FALSE, ans |-> <<>>]]
  /\ Step("cmd_start", u, <<>>)

handle_goal(u, data, nfail) ==
  /\ startswith(data, P_goal)
  /\ Commit(u, [goal |-> split_1(data)])
  /\ Emit(u, sent(<<ask_type(u)>>, nfail))
  /\ path' = [path EXCEPT ![u] = InOrder(u, data)]
  /\ Step("handle_goal", u, data)

handle_type(u, data, nfail) ==
  /\ startswith(data, P_type)
  /\ Commit(u, [property |-> split_1(data)])
  /\ Emit(u, sent(<<ask_city(u)>>, nfail))
  /\ path' = [path EXCEPT ![u] = InOrder(u, data)]
  /\ Step("handle_type", u, data)

handle_city(u, data, nfail) ==
  /\ startswith(data, P_city)
  /\ LET city == split_1(data)
     IN  /\ Commit(u, [city |-> city])
         /\ Emit(u, sent(<<ask_district(u, city)>>, nfail))
  /\ path' = [path EXCEPT ![u] = InOrder(u, data)]
  /\ Step("handle_city", u, data)

handle_district(u, data, nfail) ==
  /\ startswith(data, P_district)
  /\ Commit(u, [district |-> split_1(data)])
  /\ Emit(u, sent(<<ask_mortgage(u)>>, nfail))
  /\ path' = [path EXCEPT ![u] = InOrder(u, data)]
  /\ Step("handle_district", u, data)

handle_family(u, data, nfail) ==
  /\ startswith(data, P_family)
  /\ LET choice == split_1(data)
         val == family_value(choice)
     IN  /\ Commit(u, [mortgage |-> val])
         /\ IF choice = S_no
              THEN Emit(u, sent(<<ask_install(u)>>, nfail))
              ELSE Emit(u, sent(<<ask_handover(u)>>, nfail))
  /\ path' = [path EXCEPT ![u] = InOrder(u, data)]
  /\ Step("handle_family", u, data)

handle_install(u, data, nfail) ==
  /\ startswith(data, P_install)
  /\ Commit(u, [mortgage |-> install_value(split_1(data))])
  /\ Emit(u, sent(<<ask_handover(u)>>, nfail))
  /\ path' = [path EXCEPT ![u] = InOrder(u, data)]
  /\ Step("handle_install", u, data)

handle_handover(u, data, nfail) ==
  /\ startswith(data, P_hd)
  /\ Commit(u, [handover |-> split_1(data)])
  /\ Emit(u, sent(<<ask_finish(u)>>, nfail))
  /\ path' = [path EXCEPT ![u] = InOrder(u, data)]
  /\ Step("handle_handover", u, data)

handle_finish(u, data, nfail) ==
  /\ startswith(data, P_finish)
  /\ Commit(u, [finishing |-> split_1(data)])
  /\ Emit(u, sent(<<ask_phone(u)>>, nfail))
  /\ path' = [path EXCEPT ![u] = InOrder(u, data)]
  /\ Step("handle_finish", u, data)

\* pdf: os.path.exists(PDF_FILE_PATH)
handle_contact(u, phone_number, pdf, nfail) ==
  /\ Commit(u, [phone |-> phone_number])
  /\ LET row == fetchone(users', u)
     IN  Emit(u, sent(<<lead_notification(row)>>
                      \o (IF pdf THEN <<document(u)>> ELSE <<>>)
                      \o <<thanks(u)>>, nfail))
  /\ path' = [path EXCEPT ![u] =
                IF path[u].on /\ ~path[u].done /\ last[u].kind = "phone"
                  THEN [on |-> TRUE, done |-> TRUE, ans |-> Append(path[u].ans, phone_number)]
                  ELSE Off]
  /\ Step("handle_contact", u, phone_number)

\* --------------------------------------------------------------------- next
\* The buttons a user presses: among those in the chat, the first MaxPick of
\* a keyboard.
Pick(kb) == {kb[i] : i \in 1..(IF MaxPick < Len(kb) THEN MaxPick ELSE Len(kb))}
Pickable ==
  UNION ({Pick(m.kb) : m \in {ask_goal(0), ask_type(0), ask_city(0), ask_mortgage(0),
                              ask_install(0), ask_handover(0), ask_finish(0)}}
         \cup {Pick(DistrictKeyboards[i]) : i \in 1..Len(DISTRICTS)})
Presses(u) == shown[u] \cap Pickable

\* Telegram delivers every send of a handler here (nfail = 0).
Next ==
  \/ \E u \in Ids, n \in Names, s \in Statuses : cmd_start(u, n, s, 0)
  \/ \E u \in Ids : \E d \in Presses(u) : handle_goal(u, d, 0)
  \/ \E u \in Ids : \E d \in Presses(u) : handle_type(u, d, 0)
  \/ \E u \in Ids : \E d \in Presses(u) : handle_city(u, d, 0)
  \/ \E u \in Ids : \E d \in Presses(u) : handle_district(u, d, 0)
  \/ \E u \in Ids : \E d \in Presses(u) : handle_family(u, d, 0)
  \/ \E u \in Ids : \E d \in Presses(u) : handle_install(u, d, 0)
  \/ \E u \in Ids : \E d \in Presses(u) : handle_handover(u, d, 0)
  \/ \E u \in Ids : \E d \in Presses(u) : handle_finish(u, d, 0)
  \/ \E u \in Ids, p \in Phones, pdf \in BOOLEAN : handle_contact(u, p, pdf, 0)

Spec == Init /\ [][Next]_vars

\* ---------------------------------------------------------------- broadcast
\* mass_send.  The first step of `async for uid in iterate_users()` opens the
\* connection and fetches the ids (one fetch holds every row of a table this
\* small); then one send per id, an error skipped by the bare except.
\* Handlers run between the sends.  bc.audience records the ids the table
\* held when it was read, bc.failed the ids whose send raised, bc.caller the
\* chat of the cmd_broadcast that awaits the loop (0: a scheduled task).
mass_send_begin(text) ==
  /\ bc.pc = "idle"
  /\ bc.started < MaxBroadcasts
  /\ bc' = [pc |-> "sending", text |-> text, ids |-> iterate_users(users), i |-> 1,
            audience |-> {r["user_id"] : r \in users},
            attempts |-> <<>>, delivered |-> {}, failed |-> {},
            started |-> bc.started + 1, caller |-> 0]
  /\ out' = <<>>
  /\ ev' = [h |-> "mass_send_begin", uid |-> 0, data |-> <<>>]
  /\ UNCHANGED <<users, now, shown, last, path, ensured, conns>>

\* mass_send without the try/except: a failed send ends the loop
mass_send_step_raises(ok) ==
  /\ bc.pc = "sending"
  /\ bc.i <= Len(bc.ids)
  /\ LET uid == bc.ids[bc.i]
     IN  /\ bc' = [bc EXCEPT !.i = @ + 1,
                             !.pc = IF ok THEN @ ELSE "raised",
                             !.attempts = Append(@, uid),
                             !.delivered = IF ok THEN @ \cup {uid} ELSE @,
                             !.failed = IF ok THEN @ ELSE @ \cup {uid}]
         /\ out' = IF ok THEN <<Msg(uid, bc.text, <<>>, <<>>)>> ELSE <<>>
         /\ ev' = [h |-> "mass_send", uid |-> uid, data |-> <<>>]
  /\ UNCHANGED <<users, now, shown, last, path, ensured, conns>>

mass_send_step(ok) ==
  /\ bc.pc = "sending"
  /\ bc.i <= Len(bc.ids)
  /\ LET uid == bc.ids[bc.i]
     IN  /\ bc' = [bc EXCEPT !.i = @ + 1,
                             !.attempts = Append(@, uid),
                             !.delivered = IF ok THEN @ \cup {uid} ELSE @,
                             !.failed = IF ok THEN @ ELSE @ \cup {uid}]
         /\ out' = IF ok THEN <<Msg(uid, bc.text, <<>>, <<>>)>> ELSE <<>>
         /\ ev' = [h |-> "mass_send", uid |-> uid, data |-> <<>>]
  /\ UNCHANGED <<users, now, shown, last, path, ensured, conns>>

mass_send_end ==
  /\ bc.pc = "sending"
  /\ bc.i > Len(bc.ids)
  /\ bc' = [bc EXCEPT !.pc = "idle", !.caller = 0]
  /\ out' = IF bc.caller = 0 THEN <<>> ELSE <<broadcast_done(bc.caller)>>
  /\ ev' = [h |-> "mass_send_end", uid |-> 0, data |-> <<>>]
  /\ UNCHANGED <<users, now, shown, last, path, ensured, conns>>

scheduled_warmup == mass_send_begin("warmup")
weekly_news == mass_send_begin("news")

\* The broadcast loop while users of the audience send /start.
NextBroadcast ==
  \/ \E u \in Audience, n \in Names, s \in Statuses : cmd_start(u, n, s, 0)
  \/ scheduled_warmup
  \/ weekly_news
  \/ \E ok \in BOOLEAN : mass_send_step(ok)
  \/ mass_send_end

SpecBroadcast == Init /\ [][NextBroadcast]_vars

\* -------------------------------------------------------------------- store
\* The table under upsert_user calls for the ids of the audience, naming any
\* set of two of the data columns (none: the bare insert).
StoreColumns == {"name", "goal"}
StoreValues == {<<"a">>, <<"b">>}
StoreFields == UNION {[S -> StoreValues] : S \in SUBSET StoreColumns}

store_call(uid, fields) ==
  /\ Commit(uid, fields)
  /\ UNCHANGED <<shown, last, out, ev, path, bc, conns>>

NextStore == \E uid \in Audience, fields \in StoreFields : store_call(uid, fields)

SpecStore == Init /\ [][NextStore]_vars

\* ------------------------------------------------------------ text messages
\* The keywords of smart_replies, transliterated like the district names.
K_more == <<"m","o","r","e">>
K_poberezhye == <<"p","o","b","e","r","e","z","h","y","e">>
K_tsena == <<"t","s","e","n","a">>
K_stoimost == <<"s","t","o","i","m","o","s","t">>
K_ipotek == <<"i","p","o","t","e","k">>
K_rassroch == <<"r","a","s","s","r","o","c","h">>

C_start == <<"s","t","a","r","t">>
C_stats == <<"s","t","a","t","s">>
C_broadcast == <<"b","r","o","a","d","c","a","s","t">>

\* k in text
contains(text, k) ==
  \E i \in 0..(Len(text) - Len(k)) : SubSeq(text, i + 1, i + Len(k)) = k

\* any(k in text for k in keys)
any_in(text, keys) == \E k \in keys : contains(text, k)

\* text.split(maxsplit=1)[0]: the first word of a text without leading space
first_word(text) ==
  IF \E k \in 1..Len(text) : text[k] = " "
    THEN SubSeq(text, 1, (CHOOSE k \in 1..Len(text) :
                            text[k] = " " /\ \A j \in 1..(k - 1) : text[j] # " ") - 1)
    ELSE text

\* text.partition(" ")[2]: what follows the first space
partition_2(text) ==
  IF \E k \in 1..Len(text) : text[k] = " "
    THEN SubSeq(text, (CHOOSE k \in 1..Len(text) :
                         text[k] = " " /\ \A j \in 1..(k - 1) : text[j] # " ") + 1,
                Len(text))
    ELSE <<>>

\* The Command(name) filter: the first word is "/" and the command's name.
Command(text, name) == first_word(text) = <<"/">> \o name

\* the price group tested before the coast group
smart_reply_price_first(text) ==
  LET t == lower(text)
  IN  IF any_in(t, {K_tsena, K_stoimost}) THEN "price"
      ELSE IF any_in(t, {K_more, K_poberezhye}) THEN "coast"
      ELSE IF any_in(t, {K_ipotek, K_rassroch}) THEN "finance"
      ELSE "ack"

\* The if/elif chain of smart_replies: the tag of the reply to a text
smart_reply(text) ==
  LET t == lower(text)
  IN  IF any_in(t, {K_more, K_poberezhye}) THEN "coast"
      ELSE IF any_in(t, {K_tsena, K_stoimost}) THEN "price"
      ELSE IF any_in(t, {K_ipotek, K_rassroch}) THEN "finance"
      ELSE "ack"

\* The message handlers in the order the decorators register them, with the
\* filter of each.  A contact message carries no text and a text message no
\* contact, so F.contact passes no text.
MessageHandlers ==
  <<"cmd_start", "handle_contact", "smart_replies", "cmd_stats", "cmd_broadcast">>
passes(h, text) ==
  CASE h = "cmd_start" -> Command(text, C_start)
    [] h = "handle_contact" -> FALSE
    [] h = "smart_replies" -> TRUE
    [] h = "cmd_stats" -> Command(text, C_stats)
    [] h = "cmd_broadcast" -> Command(text, C_broadcast)

\* The dispatcher calls the first registered handler whose filter passes.
dispatch(text) ==
  MessageHandlers[CHOOSE i \in 1..Len(MessageHandlers) :
                    /\ passes(MessageHandlers[i], text)
                    /\ \A j \in 1..(i - 1) : ~passes(MessageHandlers[j], text)]

smart_replies(u, text, nfail) ==
  /\ Emit(u, sent(<<Msg(u, smart_reply(text), <<>>, <<>>)>>, nfail))
  /\ UNCHANGED <<users, now, ensured, path, bc, conns>>

cmd_stats(u, text, nfail) ==
  /\ IF u # ADMIN_ID
       THEN Emit(u, <<>>)
       ELSE Emit(u, sent(<<stats_reply(u, get_user_count(users))>>, nfail))
  /\ UNCHANGED <<users, now, ensured, path, bc, conns>>

\* The admin's broadcast starts the loop of mass_send; the closing reply is
\* sent by mass_send_end.
cmd_broadcast(u, text, nfail) ==
  /\ IF u # ADMIN_ID
       THEN Emit(u, <<>>) /\ UNCHANGED bc
       ELSE IF partition_2(text) = <<>>
         THEN Emit(u, sent(<<broadcast_usage(u)>>, nfail)) /\ UNCHANGED bc
         ELSE /\ Emit(u, <<>>)
              /\ bc' = [pc |-> "sending", text |-> partition_2(text),
                        ids |-> iterate_users(users), i |-> 1,
                        audience |-> {r["user_id"] : r \in users},
                        attempts |-> <<>>, delivered |-> {}, failed |-> {},
                        started |-> bc.started + 1, caller |-> u]
  /\ UNCHANGED <<users, now, ensured, path, conns>>

\* A text message other than the start command arrives from user u.
message(u, text, nfail) ==
  /\ dispatch(text) \in {"smart_replies", "cmd_stats", "cmd_broadcast"}
  /\ IF dispatch(text) = "smart_replies" THEN smart_replies(u, text, nfail)
     ELSE IF dispatch(text) = "cmd_stats" THEN cmd_stats(u, text, nfail)
     ELSE cmd_broadcast(u, text, nfail)
  /\ ev' = [h |-> dispatch(text), uid |-> u, data |-> text]

\* message.text of the messages users send
T_stats == <<"/","s","t","a","t","s">>
T_broadcast == <<"/","b","r","o","a","d","c","a","s","t">>
T_broadcast_sale == <<"/","b","r","o","a","d","c","a","s","t"," ","s","a","l","e">>
T_More == <<"M","o","r","e">>
T_tsena_more == <<"t","s","e","n","a"," ","m","o","r","e">>
T_Ipoteka_stoimost ==
  <<"I","p","o","t","e","k","a",","," ","s","t","o","i","m","o","s","t">>
T_rassrochka == <<"r","a","s","s","r","o","c","h","k","a">>
T_privet == <<"p","r","i","v","e","t">>
AdminCommands == {T_stats, T_broadcast, T_broadcast_sale}
FreeTexts == {T_More, T_tsena_more, T_Ipoteka_stoimost, T_rassrochka, T_privet}
Texts == AdminCommands \cup FreeTexts

\* A user and the admin send start commands and text messages.
NextChat ==
  \/ \E u \in Senders, n \in Names, s \in Statuses : cmd_start(u, n, s, 0)
  \/ \E u \in Senders, text \in Texts : message(u, text, 0)

SpecChat == Init /\ [][NextChat]_vars

\* -------------------------------------------------- upsert_user, by statement
\* Handlers run as tasks that interleave at every await.  Each upsert_user
\* call opens its own connection; sqlite3 begins a transaction before the
\* INSERT, the INSERT takes the database's write lock, the UPDATE runs in the
\* same transaction, and conn.commit() publishes both and releases the lock.
\* Until then the changes are in the connection's own copy (work).  A
\* connection that finds the lock taken waits for it.
Writing(p) == conns[p].pc \in {"inserted", "updated"}

\* no write lock: every connection may write at once
can_write_unlocked(p) == TRUE

\* The INSERT may take the write lock when no other connection holds it.
can_write(p) == \A q \in Tasks \ {p} : ~Writing(q)

\* conn = await get_db().  seen: the tasks whose call was in progress then.
upsert_connect(p, uid, fields) ==
  /\ conns[p].pc = "idle"
  /\ conns' = [conns EXCEPT ![p] =
                 [NoCall EXCEPT !.pc = "connected", !.uid = uid, !.fields = fields,
                                !.seen = {q \in Tasks \ {p} :
                                            conns[q].pc \notin {"idle", "closed"}}]]
  /\ UNCHANGED <<users, now, shown, last, out, ev, path, ensured, bc>>

\* INSERT OR IGNORE followed by a commit of its own
upsert_insert_commits(p) ==
  /\ conns[p].pc = "connected"
  /\ can_write(p)
  /\ conns' = [conns EXCEPT ![p].pc = "inserted", ![p].t = now,
                            ![p].work = upsert_user(users, conns[p].uid, <<>>, now)]
  /\ users' = upsert_user(users, conns[p].uid, <<>>, now)
  /\ now' = IF \E r \in users : r["user_id"] = conns[p].uid THEN now ELSE now + 1
  /\ UNCHANGED <<shown, last, out, ev, path, ensured, bc>>

\* await conn.execute("INSERT OR IGNORE ...", (uid, utcnow))
upsert_insert(p) ==
  /\ conns[p].pc = "connected"
  /\ can_write(p)
  /\ conns' = [conns EXCEPT ![p].pc = "inserted", ![p].t = now,
                            ![p].work = upsert_user(users, conns[p].uid, <<>>, now)]
  /\ now' = IF \E r \in users : r["user_id"] = conns[p].uid THEN now ELSE now + 1
  /\ UNCHANGED <<users, shown, last, out, ev, path, ensured, bc>>

\* if fields: await conn.execute("UPDATE users SET ... WHERE user_id=?")
upsert_update(p) ==
  /\ conns[p].pc = "inserted"
  /\ conns' = [conns EXCEPT ![p].pc = "updated",
                            ![p].work = upsert_user(@, conns[p].uid, conns[p].fields,
                                                    conns[p].t)]
  /\ UNCHANGED <<users, now, shown, last, out, ev, path, ensured, bc>>

\* await conn.commit(); await conn.close().  after: the tasks that had
\* committed before.
upsert_commit(p) ==
  /\ conns[p].pc = "updated"
  /\ users' = conns[p].work
  /\ ensured' = ensured \cup {conns[p].uid}
  /\ conns' = [conns EXCEPT ![p].pc = "closed",
                            ![p].after = {q \in Tasks : conns[q].pc = "closed"}]
  /\ UNCHANGED <<now, shown, last, out, ev, path, bc>>

\* Two tasks, one upsert_user call each, for ids of the audience.
NextTasks ==
  \/ \E p \in Tasks, uid \in Audience, fields \in StoreFields :
       upsert_connect(p, uid, fields)
  \/ \E p \in Tasks : upsert_insert(p)
  \/ \E p \in Tasks : upsert_update(p)
  \/ \E p \in Tasks : upsert_commit(p)

SpecTasks == Init /\ [][NextTasks]_vars

\* ----------------------------------------------------------- failed delivery
\* A send of cmd_start or handle_contact may raise: the exception leaves the
\* handler, the dispatcher logs it and goes on to the next update.
NextFault ==
  \/ \E n \in Names, s \in Statuses, nfail \in 0..1 :
       cmd_start(Customer, n, s, nfail)
  \/ \E d \in Presses(Customer) : handle_goal(Customer, d, 0)
  \/ \E p \in Phones, pdf \in BOOLEAN, nfail \in 0..3 :
       handle_contact(Customer, p, pdf, nfail)

SpecFault == Init /\ [][NextFault]_vars

\* ------------------------------------------------------------------- claims
HasRow(u) == \E r \in users : r["user_id"] = u
DataColumns == ColumnNames \ {"user_id", "created_at"}

\* C1: when a member has answered every prompt in order (goal, type, city, a
\* district of that city, financing and on "no" the installment location,
\* handover, finish) and shared a contact, the row holds the chosen goal,
\* type, city, the district's lower-cased space-to-underscore key, "family"
\* or "install_<location>", the handover and finish codes and the phone.
HappyPathRecord ==
  \A u \in Ids : path[u].done =>
    /\ HasRow(u)
    /\ LET a == path[u].ans
           row == fetchone(users, u)
           k == IF Len(a) = 9 THEN 1 ELSE 0
       IN  /\ Len(a) \in {8, 9}
           /\ \E g \in Range(GoalCodes) : a[1] = P_goal \o g /\ row["goal"] = g
           /\ \E t \in Range(TypeCodes) : a[2] = P_type \o t /\ row["property"] = t
           /\ \E i \in 1..Len(DISTRICTS) :
                /\ a[3] = P_city \o DISTRICTS[i][1]
                /\ row["city"] = DISTRICTS[i][1]
                /\ \E j \in 1..Len(DISTRICTS[i][2]) :
                     /\ a[4] = P_district \o district_key(DISTRICTS[i][2][j])
                     /\ row["district"] = district_key(DISTRICTS[i][2][j])
           /\ IF a[5] = P_family \o S_yes
                THEN Len(a) = 8 /\ row["mortgage"] = S_family
                ELSE /\ a[5] = P_family \o S_no
                     /\ Len(a) = 9
                     /\ \E l \in Range(InstallCodes) :
                          a[6] = P_install \o l /\ row["mortgage"] = P_install \o l
           /\ \E h \in Range(HandoverCodes) :
                a[6 + k] = P_hd \o h /\ row["handover"] = h
           /\ \E f \in Range(FinishCodes) :
                a[7 + k] = P_finish \o f /\ row["finishing"] = f
           /\ a[8 + k] \in Phones /\ row["phone"] = a[8 + k]

\* A pass completed through the installment branch, in Moscow.
HappyPathInstallDone ==
  \E u \in Ids :
    /\ path[u].done
    /\ Len(path[u].ans) = 9
    /\ fetchone(users, u)["city"] = <<"m","o","s","c","o","w">>
    /\ fetchone(users, u)["district"] = <<"s","e","v","e","r","n","y">>
    /\ fetchone(users, u)["mortgage"] =
         <<"i","n","s","t","a","l","l","_","c","o","a","s","t">>

\* C2 as stated: a start command from a non-member sends the join prompt and
\* no goal prompt, and writes no field: a row that existed is unchanged, a
\* new row has only user_id and created_at set.
NonMemberStartWritesNothing ==
  [][\A u \in Ids, n \in Names, s \in Statuses \ MemberStatuses :
       cmd_start(u, n, s, 0) =>
         /\ out' = <<join_prompt(u)>>
         /\ IF HasRow(u)
              THEN fetchone(users', u) = fetchone(users, u)
              ELSE \A c \in DataColumns : fetchone(users', u)[c] = NULL]_vars

\* C2 amended: a start command from a non-member sends the join prompt and
\* no goal prompt, shows no new button, and writes the name and no other
\* field: a new row has only user_id, created_at and name set.
NonMemberStartWritesOnlyName ==
  [][\A u \in Ids, n \in Names, s \in Statuses \ MemberStatuses :
       cmd_start(u, n, s, 0) =>
         /\ out' = <<join_prompt(u)>>
         /\ shown'[u] = shown[u]
         /\ fetchone(users', u)["name"] = n
         /\ IF HasRow(u)
              THEN \A c \in ColumnNames \ {"name"} :
                     fetchone(users', u)[c] = fetchone(users, u)[c]
              ELSE \A c \in DataColumns \ {"name"} :
                     fetchone(users', u)[c] = NULL]_vars

\* A new user was just refused: join prompt sent, row with the name only.
NonMemberRefused ==
  /\ ev.h = "cmd_start"
  /\ out = <<join_prompt(ev.uid)>>
  /\ shown[ev.uid] = {}
  /\ fetchone(users, ev.uid)["name"] \in Names
  /\ \A c \in DataColumns \ {"name"} : fetchone(users, ev.uid)[c] = NULL

\* C3: a row whose city and district are both set has the key of one of the
\* districts DISTRICTS lists for that city.
DistrictBelongsToCity ==
  \A r \in users :
    (r["city"] # NULL /\ r["district"] # NULL) =>
      r["district"] \in {district_key(d) : d \in Range(DISTRICTS_get(r["city"]))}

\* C4: when the prompt of question N is sent to a user, the columns of
\* questions 1..N-1 are set in the user's row.  The installment-location
\* prompt belongs to question 5.
Questions == <<"goal", "type", "city", "district", "mortgage", "handover",
               "finish", "phone">>
QuestionColumns == <<"goal", "property", "city", "district", "mortgage",
                     "handover", "finishing", "phone">>
PromptsFollowOrder ==
  \A i \in 1..Len(out) : \A N \in 1..Len(Questions) :
    (out[i].kind = Questions[N] \/ (N = 5 /\ out[i].kind = "install")) =>
      /\ HasRow(out[i].to)
      /\ \A k \in 1..(N - 1) : fetchone(users, out[i].to)[QuestionColumns[k]] # NULL

\* The phone prompt has just been sent.
PhonePromptSent == \E i \in 1..Len(out) : out[i].kind = "phone"

\* C5: a "yes" to financing stores "family" and sends the handover prompt; a
\* "no" stores "no_family" and sends the installment-location prompt; a
\* handover prompt is sent only by a "yes" or by the choice of a location.
FinancingAnswer ==
  /\ (ev.h = "handle_family" /\ ev.data = P_family \o S_yes) =>
       /\ fetchone(users, ev.uid)["mortgage"] = S_family
       /\ out = <<ask_handover(ev.uid)>>
  /\ (ev.h = "handle_family" /\ ev.data = P_family \o S_no) =>
       /\ fetchone(users, ev.uid)["mortgage"] = S_no_family
       /\ out = <<ask_install(ev.uid)>>
  /\ (\E i \in 1..Len(out) : out[i].kind = "handover") =>
       \/ ev.h = "handle_family" /\ ev.data = P_family \o S_yes
       \/ ev.h = "handle_install" /\ \E l \in Range(InstallCodes) : ev.data = P_install \o l

\* A location was chosen after a "no" and the handover prompt followed.
HandoverAfterLocation ==
  /\ ev.h = "handle_install"
  /\ out = <<ask_handover(ev.uid)>>
  /\ P_family \o S_no \in Range(path[ev.uid].ans)

\* C6: the notification a shared contact sends to ADMIN_ID lists goal,
\* property, city, district, mortgage, handover, finishing and phone as the
\* row holds them after the phone was written (an unset value prints "None").
LeadNotificationMatchesRow ==
  ev.h = "handle_contact" =>
    LET row == fetchone(users, ev.uid)
    IN  /\ row["phone"] = ev.data
        /\ Len(out) >= 1
        /\ out[1].to = ADMIN_ID
        /\ out[1].kind = "lead"
        /\ out[1].body = << <<"goal", str(row["goal"])>>,
                            <<"type", str(row["property"])>>,
                            <<"city", str(row["city"])>>,
                            <<"district", str(row["district"])>>,
                            <<"mortgage", str(row["mortgage"])>>,
                            <<"handover", str(row["handover"])>>,
                            <<"finishing", str(row["finishing"])>>,
                            <<"phone", str(row["phone"])>> >>

\* A contact was shared with all eight values set.
LeadWithAllValues ==
  /\ ev.h = "handle_contact"
  /\ \A c \in DataColumns : fetchone(users, ev.uid)[c] # NULL

\* C7: a broadcast tries every id the table held when it was read exactly
\* once, in one pass; a send that raises is skipped, every other id still
\* receives the message, and the loop ends without raising.
BroadcastReachesEveryId ==
  /\ bc.pc # "raised"
  /\ Range(bc.ids) = bc.audience
  /\ \A i, j \in 1..Len(bc.attempts) : bc.attempts[i] = bc.attempts[j] => i = j
  /\ Range(bc.attempts) \subseteq bc.audience
  /\ bc.delivered = Range(bc.attempts) \ bc.failed
  /\ (bc.pc = "sending" /\ bc.i <= Len(bc.ids)) => bc.ids[bc.i] \notin Range(bc.attempts)
  /\ (bc.pc = "idle" /\ bc.started > 0) =>
       /\ Range(bc.attempts) = bc.audience
       /\ bc.delivered = bc.audience \ bc.failed

\* A broadcast to every id of the audience ended with one failed send, the
\* other ids having received the message.
BroadcastEndedWithOneFailure ==
  /\ bc.pc = "idle"
  /\ bc.started > 0
  /\ bc.audience = Audience
  /\ Cardinality(bc.failed) = 1
  /\ bc.delivered = Audience \ bc.failed
  /\ bc.delivered # {}

\* C8: upsert_user(uid, fields) sets the named columns of uid's row to the
\* given values and changes nothing else: the other columns of that row keep
\* their values (a row just inserted has them unset), the rows of other ids
\* are the same, and uid has one row.
UpdateChangesOnlyNamedFields ==
  [][\A uid \in Audience, fields \in StoreFields :
       store_call(uid, fields) =>
         /\ {r \in users' : r["user_id"] # uid} = {r \in users : r["user_id"] # uid}
         /\ Cardinality({r \in users' : r["user_id"] = uid}) = 1
         /\ LET new == fetchone(users', uid)
            IN  /\ \A c \in DOMAIN fields : new[c] = fields[c]
                /\ IF HasRow(uid)
                     THEN \A c \in ColumnNames \ DOMAIN fields :
                            new[c] = fetchone(users, uid)[c]
                     ELSE \A c \in DataColumns \ DOMAIN fields : new[c] = NULL]_vars

\* Two rows, one of them with both store columns set to different values.
TwoRowsOneUpdatedTwice ==
  \E r1, r2 \in users :
    /\ r1["user_id"] # r2["user_id"]
    /\ r1["name"] = <<"a">>
    /\ r1["goal"] = <<"b">>
    /\ r2["name"] # NULL

\* C9: an id never has two rows, a row's created_at never changes, and
\* upsert_user without fields for an id that has a row changes nothing.
EnsureIsIdempotent ==
  [][/\ \A r \in users : \E r2 \in users' :
          r2["user_id"] = r["user_id"] /\ r2["created_at"] = r["created_at"]
     /\ \A r1, r2 \in users' : r1["user_id"] = r2["user_id"] => r1 = r2
     /\ \A uid \in Audience :
          (HasRow(uid) /\ store_call(uid, <<>>)) => users' = users]_vars

\* A row inserted first and updated after another id's row was inserted.
OldRowUpdatedLater ==
  \E r \in users :
    /\ r["created_at"] = 0
    /\ r["name"] # NULL
    /\ r["goal"] # NULL
    /\ now >= 2

\* C10: the row count is the number of distinct ids upsert_user was called
\* with, however many calls each id had.
CountIsDistinctIds == get_user_count(users) = Cardinality(ensured)

\* Every id of the audience counted, one of them updated in both columns.
EveryIdCounted ==
  /\ ensured = Audience
  /\ get_user_count(users) = MaxAudience
  /\ \E r \in users : r["name"] # NULL /\ r["goal"] # NULL

\* C11: no step deletes a row or unsets a column that was set.  Across
\* restarts (a new start command mid-pass or after completion) a column keeps
\* its value until the handler of its own question writes it again: a step
\* changes at most the one column its handler writes, in the sender's row.
WrittenBy ==
  [h \in {"cmd_start", "handle_goal", "handle_type", "handle_city",
          "handle_district", "handle_family", "handle_install",
          "handle_handover", "handle_finish", "handle_contact"} |->
     CASE h = "cmd_start" -> "name"
       [] h = "handle_goal" -> "goal"
       [] h = "handle_type" -> "property"
       [] h = "handle_city" -> "city"
       [] h = "handle_district" -> "district"
       [] h \in {"handle_family", "handle_install"} -> "mortgage"
       [] h = "handle_handover" -> "handover"
       [] h = "handle_finish" -> "finishing"
       [] h = "handle_contact" -> "phone"]
FieldsAccumulate ==
  [][\A r \in users : \E r2 \in users' :
       /\ r2["user_id"] = r["user_id"]
       /\ r2["created_at"] = r["created_at"]
       /\ \A c \in DataColumns :
            /\ r[c] # NULL => r2[c] # NULL
            /\ r2[c] # r[c] =>
                 /\ ev'.h \in DOMAIN WrittenBy
                 /\ c = WrittenBy[ev'.h]
                 /\ ev'.uid = r["user_id"]]_vars

\* A member started again after a completed pass and the row still holds
\* every value of that pass.
RestartKeepsFields ==
  /\ ev.h = "cmd_start"
  /\ path[ev.uid].on
  /\ path[ev.uid].ans = <<>>
  /\ \A c \in DataColumns : fetchone(users, ev.uid)[c] # NULL

\* C12: a stats or broadcast command from a user other than ADMIN_ID changes
\* no row, starts no broadcast and is answered by no message.
NonAdminCommandIgnored ==
  [][\A u \in Senders \ {ADMIN_ID}, text \in AdminCommands :
       message(u, text, 0) =>
         /\ users' = users
         /\ bc' = bc
         /\ out' = <<>>]_vars

\* C13: the stats command from ADMIN_ID is answered to the admin with the
\* number of rows of the table.
StatsReportsCount ==
  [][message(ADMIN_ID, T_stats, 0) =>
       out' = <<stats_reply(ADMIN_ID, get_user_count(users))>>]_vars

\* C14: a text that is no command is answered by one message: the reply of
\* the first of the groups coast, price, financing that has a keyword in the
\* lower-cased text, the acknowledgement when none has.
KeywordGroups ==
  << <<"coast", {K_more, K_poberezhye}>>,
     <<"price", {K_tsena, K_stoimost}>>,
     <<"finance", {K_ipotek, K_rassroch}>> >>
Matching(text) ==
  {g \in 1..Len(KeywordGroups) : \E k \in KeywordGroups[g][2] : contains(lower(text), k)}
FirstGroupReplies ==
  (ev.h = "smart_replies" /\ ev.data \in FreeTexts) =>
    /\ Len(out) = 1
    /\ out[1].to = ev.uid
    /\ IF Matching(ev.data) = {}
         THEN out[1].kind = "ack"
         ELSE \E g \in Matching(ev.data) :
                /\ \A h \in Matching(ev.data) : g <= h
                /\ out[1].kind = KeywordGroups[g][1]

\* A text with a price keyword before a coast keyword got the coast reply.
SeveralGroupsMatched ==
  /\ ev.h = "smart_replies"
  /\ ev.data = T_tsena_more
  /\ Cardinality(Matching(ev.data)) = 2
  /\ out[1].kind = "coast"

\* C15: two interleaved upsert_user calls end as one of their two serial
\* orders.  For one id, a column only one call names holds that call's value
\* and a column both name holds the value of the call that committed later;
\* for two ids, each row holds its own call's values and nothing else.
Serial(p, q) ==
  upsert_user(upsert_user({}, conns[p].uid, conns[p].fields, 0),
              conns[q].uid, conns[q].fields, 1)
InterleavedCallsSerialize ==
  (\A p \in Tasks : conns[p].pc = "closed") =>
    /\ users \in {Serial("A", "B"), Serial("B", "A")}
    /\ \A p, q \in Tasks : p # q =>
         LET row == fetchone(users, conns[p].uid)
             mine == DOMAIN conns[p].fields
             theirs == DOMAIN conns[q].fields
         IN  /\ HasRow(conns[p].uid)
             /\ IF conns[p].uid = conns[q].uid
                  THEN /\ \A c \in mine \ theirs : row[c] = conns[p].fields[c]
                       /\ q \in conns[p].after =>
                            \A c \in mine : row[c] = conns[p].fields[c]
                  ELSE /\ \A c \in mine : row[c] = conns[p].fields[c]
                       /\ \A c \in DataColumns \ mine : row[c] = NULL

\* Both calls were for one id; B connected while A's call was in progress and
\* committed first; the row holds A's name and B's goal.
InterleavedSameId ==
  /\ \A p \in Tasks : conns[p].pc = "closed"
  /\ conns["A"].uid = conns["B"].uid
  /\ conns["B"].seen = {"A"}
  /\ conns["A"].after = {"B"}
  /\ DOMAIN conns["A"].fields = {"name"}
  /\ DOMAIN conns["B"].fields = {"goal"}
  /\ fetchone(users, conns["A"].uid)["name"] = conns["A"].fields["name"]
  /\ fetchone(users, conns["A"].uid)["goal"] = conns["B"].fields["goal"]

\* C19 as stated: an upsert_user call with fields for an id without a row
\* commits the new row before the field write, so that the table then shows
\* a row of that id with only user_id and created_at set.
CreationCommittedBeforeUpdate ==
  [][\A p \in Tasks :
       (upsert_insert(p) /\ ~HasRow(conns[p].uid) /\ DOMAIN conns[p].fields # {}) =>
         \E r \in users' :
           /\ r["user_id"] = conns[p].uid
           /\ \A c \in DataColumns : r[c] = NULL]_vars

\* C19 amended: an upsert_user call commits once, after the UPDATE.  Neither
\* the INSERT nor the UPDATE changes the committed table, and a row the
\* commit adds already holds every field the call named.
CreationAndUpdateCommitTogether ==
  [][\A p \in Tasks :
       /\ (upsert_insert(p) \/ upsert_update(p)) => users' = users
       /\ (upsert_commit(p) /\ ~HasRow(conns[p].uid)) =>
            \E r \in users' :
              /\ r["user_id"] = conns[p].uid
              /\ \A c \in DOMAIN conns[p].fields : r[c] = conns[p].fields[c]]_vars

\* A call with fields has run its INSERT for a new id and not yet committed:
\* its own copy holds the bare row, the table holds no row of that id.
InsertNotYetCommitted ==
  \E p \in Tasks :
    /\ conns[p].pc = "inserted"
    /\ DOMAIN conns[p].fields # {}
    /\ ~HasRow(conns[p].uid)
    /\ \E r \in conns[p].work :
         r["user_id"] = conns[p].uid /\ \A c \in DataColumns : r[c] = NULL

\* C16: when handle_contact has sent the notification to ADMIN_ID, goal,
\* property, city, district, mortgage, handover and finishing are set in the
\* sender's row, whatever the user did before sharing the contact.
LeadIsComplete ==
  (ev.h = "handle_contact" /\ \E i \in 1..Len(out) : out[i].kind = "lead") =>
    \A c \in DataColumns \ {"name", "phone"} : fetchone(users, ev.uid)[c] # NULL

\* C17: when handle_handover has written a handover answer, the mortgage
\* column of that row is "family" or "install_<location>", never
\* "no_family", whichever of the buttons shown so far the user pressed.
HandoverNeverAfterNoFamily ==
  ev.h = "handle_handover" =>
    fetchone(users, ev.uid)["mortgage"] \in
      {S_family} \cup {install_value(l) : l \in Range(InstallCodes)}

\* C18: while every membership check of a user has failed (the goal prompt
\* was never sent to the user), goal, property, city, district, mortgage,
\* handover, finishing and phone are unset in the user's row and no
\* notification about the user is sent to ADMIN_ID.
PassedCheck(u) == Range(ask_goal(u).kb) \subseteq shown[u]
NonMemberLeavesNoLead ==
  \A u \in Ids : (HasRow(u) /\ ~PassedCheck(u)) =>
    /\ \A c \in DataColumns \ {"name"} : fetchone(users, u)[c] = NULL
    /\ ~(ev.h = "handle_contact" /\ ev.uid = u
          /\ \E i \in 1..Len(out) : out[i].kind = "lead")

\* C20: handle_contact commits the phone, then sends the notification to
\* ADMIN_ID, then the document and the thanks.  When the notification's send
\* raises, the phone is stored, nothing is sent (neither the notification
\* again, nor the document, nor the thanks) and the user's chat is as before;
\* when no send raises, the notification goes out first and already names
\* the phone.
ContactFailureKeepsPhone ==
  [][\A u \in {Customer}, p \in Phones, pdf \in BOOLEAN :
       /\ handle_contact(u, p, pdf, 1) =>
            /\ fetchone(users', u)["phone"] = p
            /\ out' = <<>>
            /\ last'[u] = last[u]
       /\ handle_contact(u, p, pdf, 0) =>
            /\ fetchone(users', u)["phone"] = p
            /\ out'[1].kind = "lead"
            /\ out'[1].body[Len(PartLabels)] = <<"phone", p>>
            /\ SubSeq(out', 2, Len(out')) =
                 (IF pdf THEN <<document(u)>> ELSE <<>>) \o <<thanks(u)>>]_vars

\* The notification's send raised after a pass answered up to the goal: the
\* phone is stored and nothing was sent.
ContactSendRaised ==
  /\ ev.h = "handle_contact"
  /\ out = <<>>
  /\ fetchone(users, ev.uid)["phone"] = ev.data
  /\ fetchone(users, ev.uid)["goal"] # NULL

====
